---- MODULE Spec2Model ----
(***************************************************************************)
(* A model of pixelfixel: median-cut quantisation, palette mapping and     *)
(* elbow selection (src/paletteApply.js), grid detection with tile-wise    *)
(* k-means downscaling (src/unnamed/part_001), and the page that drives    *)
(* them from its event handlers (src/unnamed/part_000).                    *)
(*                                                                         *)
(* An image buffer is a record [data, width, height] whose data is the     *)
(* sequence of its pixels <<r, g, b, a>> (the flat byte array of the       *)
(* source taken four bytes at a time; byte lengths that are not a multiple *)
(* of four are not modelled).  Every exported function is one action: it   *)
(* is called on the buffer chosen by Init with arguments drawn from small  *)
(* sets, and leaves the call and its outcome in the state.                 *)
(*                                                                         *)
(* JavaScript numbers are modelled exactly: a number is an integer, a      *)
(* rational [t |-> "fin", n, d] or one of NaN, +Infinity, -Infinity, and   *)
(* the model's inputs are kept small enough that the doubles of the source *)
(* compute the same comparisons as the exact arithmetic used here.         *)
(***************************************************************************)
EXTENDS Integers, Sequences, FiniteSets

\* one call of a stage: its input buffer, the call and its outcome, and the
\* buckets of medianCut while its loop runs
VARIABLES imageData, call, result, buckets

\* src/unnamed/part_000: the application state (lines 11-13), the elements of
\* the page it writes, the loads and the debounce timer in flight, and whether
\* the last reset has not been followed by a new load yet
VARIABLES originalImage, fixedImageData, detectionInfo, processingSection,
          paletteSelect, customColorGroup, colorSlider, fixedCanvas,
          loads, timeout, cleared

stageVars == <<imageData, call, result, buckets>>

appVars == <<originalImage, fixedImageData, detectionInfo, processingSection,
             paletteSelect, customColorGroup, colorSlider, fixedCanvas,
             loads, timeout, cleared>>

vars == <<stageVars, appVars>>

(***************************************************************************)
(* Bounds of the model.                                                    *)
(***************************************************************************)
\* longest pixel sequence of a freely chosen input buffer
MaxPixels == 4
\* largest numColors / maxK argument tried
MaxK == 4
\* largest checkerboard side
MaxBoard == 4
\* longest palette handed to applyPalette, beside the preset
MaxPalette == 2
\* widest band (the period N) of a banded image
MaxPeriod == 4
\* most bands of a banded image
MaxBands == 4
\* tallest banded image
MaxHeight == 2
\* largest number of clusters handed to kCentroid
MaxCentroids == 2

\* the longest one-row image of freely chosen pixels
MaxRow == 9

\* the loads (FileReader and Image callbacks) that may be in flight at once
MaxLoads == 2

\* the longest signal and the largest distance handed to findPeaks
MaxSignal == 7

MaxDistance == 3

(***************************************************************************)
(* Values.                                                                 *)
(***************************************************************************)
\* the NaN produced by 0/0 and by arithmetic on undefined, as a channel value
NaN == -1

\* the value of an out-of-range array read (palette[0] of an empty palette)
Undefined == << >>

\* a function on 1..n as the array of its values: the elements are computed
\* once, here, instead of at every later use
Array(f) == f \o << >>

Min(a, b) == IF a < b THEN a ELSE b

Max(a, b) == IF a > b THEN a ELSE b

RGB(p) == <<p[1], p[2], p[3]>>

RECURSIVE SumChannel(_, _)
SumChannel(pixels, c) ==
    IF pixels = << >> THEN 0 ELSE Head(pixels)[c] + SumChannel(Tail(pixels), c)

RECURSIVE MinChannel(_, _)
MinChannel(pixels, c) ==
    IF pixels = << >> THEN 255 ELSE Min(Head(pixels)[c], MinChannel(Tail(pixels), c))

RECURSIVE MaxChannel(_, _)
MaxChannel(pixels, c) ==
    IF pixels = << >> THEN 0 ELSE Max(Head(pixels)[c], MaxChannel(Tail(pixels), c))

\* Math.round(s / n) for s >= 0: halves round up; 0/0 is NaN
RoundDiv(s, n) == IF n = 0 THEN NaN ELSE (2 * s + n) \div (2 * n)

\* a store into a Uint8ClampedArray: NaN becomes 0, the rest is clamped
ToUint8Clamped(v) == IF v = NaN THEN 0 ELSE Max(0, Min(255, v))

(***************************************************************************)
(* new ImageData(data, width, height).  The constructor belongs to the     *)
(* host, not to the repository.  For a well-formed buffer it returns the   *)
(* image; what it does with a zero or mismatched length is the host's      *)
(* choice (a browser throws, a lenient implementation returns the object), *)
(* so both outcomes are kept.                                              *)
(***************************************************************************)
WellFormed(img) ==
    /\ img.width > 0
    /\ img.height > 0
    /\ Len(img.data) = img.width * img.height

Return(v) == [kind |-> "return", value |-> v]

Throw(e) == [kind |-> "throw", value |-> e]

ImageData(data, width, height) ==
    LET img == [data |-> data, width |-> width, height |-> height]
    IN  IF WellFormed(img) THEN {Return(img)}
        ELSE {Return(img), Throw("ImageData")}

(***************************************************************************)
(* src/paletteApply.js                                                     *)
(***************************************************************************)
getColorRanges(pixels) ==
    IF Len(pixels) = 0 THEN <<0, 0, 0>>
    ELSE <<MaxChannel(pixels, 1) - MinChannel(pixels, 1),
           MaxChannel(pixels, 2) - MinChannel(pixels, 2),
           MaxChannel(pixels, 3) - MinChannel(pixels, 3)>>

\* Math.max(...ranges)
MaxRange(ranges) == Max(ranges[1], Max(ranges[2], ranges[3]))

\* ranges.indexOf(maxRange), as a channel 1..3
RangeChannel(ranges) ==
    CHOOSE c \in 1..3 : /\ ranges[c] = MaxRange(ranges)
                        /\ \A e \in 1..(c - 1) : ranges[e] # MaxRange(ranges)

\* the for-loop of lines 57-67: the first bucket of the largest range
LargestBucket(bs) ==
    CHOOSE i \in 1..Len(bs) :
        /\ \A j \in 1..Len(bs) :
              MaxRange(getColorRanges(bs[j])) <= MaxRange(getColorRanges(bs[i]))
        /\ \A j \in 1..(i - 1) :
              MaxRange(getColorRanges(bs[j])) < MaxRange(getColorRanges(bs[i]))

\* one element put into a sequence sorted on channel c, after its equals
RECURSIVE InsertSorted(_, _, _)
InsertSorted(sorted, x, c) ==
    IF sorted = << >> THEN <<x>>
    ELSE IF x[c] < Head(sorted)[c] THEN <<x>> \o sorted
    ELSE <<Head(sorted)>> \o InsertSorted(Tail(sorted), x, c)

\* [...bucket].sort((a, b) => a[c] - b[c]): Array.prototype.sort is stable
RECURSIVE SortByChannel(_, _)
SortByChannel(bucket, c) ==
    IF bucket = << >> THEN << >>
    ELSE InsertSorted(SortByChannel(SubSeq(bucket, 1, Len(bucket) - 1), c),
                      bucket[Len(bucket)], c)

\* the break of line 69
CannotSplit(bs) == Len(bs[LargestBucket(bs)]) < 2

\* the split with sorted.slice(mid + 1) for the second half
SplitLargestAfterMedian(bs) ==
    LET idx == LargestBucket(bs)
        largestChannel == RangeChannel(getColorRanges(bs[idx]))
        sorted == SortByChannel(bs[idx], largestChannel)
        mid == Len(sorted) \div 2
    IN  SubSeq(bs, 1, idx - 1)
          \o <<SubSeq(sorted, 1, mid), SubSeq(sorted, mid + 2, Len(sorted))>>
          \o SubSeq(bs, idx + 1, Len(bs))

\* lines 71-80: the chosen bucket replaced, in place, by its two halves
SplitLargest(bs) ==
    LET idx == LargestBucket(bs)
        largestChannel == RangeChannel(getColorRanges(bs[idx]))
        sorted == SortByChannel(bs[idx], largestChannel)
        mid == Len(sorted) \div 2
    IN  SubSeq(bs, 1, idx - 1)
          \o <<SubSeq(sorted, 1, mid), SubSeq(sorted, mid + 1, Len(sorted))>>
          \o SubSeq(bs, idx + 1, Len(bs))

\* the while-loop of lines 51-81
RECURSIVE SplitBuckets(_, _)
\* the loop with "bs.length <= numColors": one split too many
SplitBucketsOnceMore(bs, numColors) ==
    IF Len(bs) > numColors \/ CannotSplit(bs) THEN bs
    ELSE SplitBuckets(SplitLargest(bs), numColors)

SplitBuckets(bs, numColors) ==
    IF Len(bs) >= numColors \/ CannotSplit(bs) THEN bs
    ELSE SplitBuckets(SplitLargest(bs), numColors)

\* the bs medianCut ends with, from the single bucket of all pixels
medianCutBuckets(pixels, numColors) == SplitBuckets(<<pixels>>, numColors)

\* the average with Math.floor in place of Math.round
AverageTruncated(bucket) ==
    IF Len(bucket) = 0 THEN <<NaN, NaN, NaN>>
    ELSE <<SumChannel(bucket, 1) \div Len(bucket),
           SumChannel(bucket, 2) \div Len(bucket),
           SumChannel(bucket, 3) \div Len(bucket)>>

\* lines 84-97: the rounded channel-wise average of a bucket
Average(bucket) ==
    <<RoundDiv(SumChannel(bucket, 1), Len(bucket)),
      RoundDiv(SumChannel(bucket, 2), Len(bucket)),
      RoundDiv(SumChannel(bucket, 3), Len(bucket))>>

medianCut(pixels, numColors) ==
    LET bs == medianCutBuckets(pixels, numColors)
    IN  Array([i \in 1..Len(bs) |-> Average(bs[i])])

\* dr*dr + dg*dg + db*db; NaN as soon as a channel is NaN
DistanceSquared(a, b) ==
    IF \E c \in 1..3 : a[c] = NaN \/ b[c] = NaN THEN NaN
    ELSE (a[1] - b[1]) * (a[1] - b[1]) + (a[2] - b[2]) * (a[2] - b[2])
           + (a[3] - b[3]) * (a[3] - b[3])

\* the loop of findNearestColor over palette[1..n]: <<minDist, nearest>>, where
\* a minDist of NaN stands for the initial Infinity (a NaN dist is never kept)
RECURSIVE NearestScan(_, _, _)
\* the scan with "dist <= minDist": the last of the nearest entries wins
NearestScanLast(color, palette, n) ==
    IF n = 0 THEN <<NaN, IF palette = << >> THEN Undefined ELSE palette[1]>>
    ELSE LET prev == NearestScan(color, palette, n - 1)
             dist == DistanceSquared(color, palette[n])
         IN  IF dist # NaN /\ (prev[1] = NaN \/ dist <= prev[1])
             THEN <<dist, palette[n]>>
             ELSE prev

NearestScan(color, palette, n) ==
    IF n = 0 THEN <<NaN, IF palette = << >> THEN Undefined ELSE palette[1]>>
    ELSE LET prev == NearestScan(color, palette, n - 1)
             dist == DistanceSquared(color, palette[n])
         IN  IF dist # NaN /\ (prev[1] = NaN \/ dist < prev[1])
             THEN <<dist, palette[n]>>
             ELSE prev

findNearestColor(color, palette) == NearestScan(color, palette, Len(palette))[2]

\* the pixel loop writing a fully opaque alpha instead of the source's
MapPixelsOpaque(data, palette) ==
    Array([i \in 1..Len(data) |->
        LET nearest == NearestScan(RGB(data[i]), palette, Len(palette))[2]
        IN  IF nearest = Undefined THEN Undefined
            ELSE <<ToUint8Clamped(nearest[1]), ToUint8Clamped(nearest[2]),
                   ToUint8Clamped(nearest[3]), 255>>])

\* the pixel loop of quantizeImage (27-35) and applyPalette (159-167): reading
\* nearest[0] of undefined throws a TypeError at the first pixel
MapPixels(data, palette) ==
    Array([i \in 1..Len(data) |->
        LET nearest == findNearestColor(RGB(data[i]), palette)
        IN  IF nearest = Undefined THEN Undefined
            ELSE <<ToUint8Clamped(nearest[1]), ToUint8Clamped(nearest[2]),
                   ToUint8Clamped(nearest[3]), data[i][4]>>])

Colors(data) == Array([i \in 1..Len(data) |-> RGB(data[i])])

applyPalette(img, palette) ==
    LET outputData == MapPixels(img.data, palette)
    IN  IF \E i \in 1..Len(outputData) : outputData[i] = Undefined
        THEN {Throw("TypeError")}
        ELSE ImageData(outputData, img.width, img.height)

quantizeImage(img, numColors) ==
    LET palette == medianCut(Colors(img.data), numColors)
        outputData == MapPixels(img.data, palette)
    IN  ImageData(outputData, img.width, img.height)

(***************************************************************************)
(* The numbers of determineBestK: rationals n/d (d > 0), NaN and the two   *)
(* infinities, with the arithmetic and the comparison of IEEE doubles.     *)
(***************************************************************************)
Fin(n, d) == [t |-> "fin", n |-> n, d |-> d]

NotANumber == [t |-> "nan", n |-> 0, d |-> 1]

PosInfinity == [t |-> "pinf", n |-> 1, d |-> 1]

NegInfinity == [t |-> "ninf", n |-> -1, d |-> 1]

\* a / b for integers a and b >= 0
Divide(a, b) ==
    IF b # 0 THEN Fin(a, b)
    ELSE IF a = 0 THEN NotANumber
    ELSE IF a > 0 THEN PosInfinity ELSE NegInfinity

\* x - y
Subtract(x, y) ==
    IF x.t = "nan" \/ y.t = "nan" THEN NotANumber
    ELSE IF x.t = "fin" /\ y.t = "fin" THEN Fin(x.n * y.d - y.n * x.d, x.d * y.d)
    ELSE IF x.t = y.t THEN NotANumber
    ELSE IF x.t = "pinf" \/ y.t = "ninf" THEN PosInfinity
    ELSE NegInfinity

\* x > y
Greater(x, y) ==
    IF x.t = "nan" \/ y.t = "nan" THEN FALSE
    ELSE IF x.t = "fin" /\ y.t = "fin" THEN x.n * y.d > y.n * x.d
    ELSE IF x.t = y.t THEN FALSE
    ELSE x.t = "pinf" \/ y.t = "ninf"

\* line 183: i += 16 takes every fourth pixel
SampleStride == 4

\* line 192: Math.min(maxK, 32)
KCap == 32

\* lines 182-185
SamplePixels(data) ==
    Array([j \in 1..((Len(data) + SampleStride - 1) \div SampleStride) |->
        RGB(data[SampleStride * (j - 1) + 1])])

\* lines 196-203: the total squared distance of the samples to the palette
RECURSIVE TotalDistortion(_, _)
TotalDistortion(pixels, palette) ==
    IF pixels = << >> THEN 0
    ELSE DistanceSquared(Head(pixels), findNearestColor(Head(pixels), palette))
           + TotalDistortion(Tail(pixels), palette)

\* lines 190-206
Distortions(pixels, maxK) ==
    Array([k \in 1..Min(maxK, KCap) |-> TotalDistortion(pixels, medianCut(pixels, k))])

\* line 211
Rate(prev, cur) == Divide(prev - cur, prev)

\* lines 209-213
RateOfChange(distortions) ==
    Array([i \in 1..(Len(distortions) - 1) |-> Rate(distortions[i], distortions[i + 1])])

\* lines 218-227 up to index i of rateOfChange (0-based): <<maxDrop, elbowIndex>>
RECURSIVE ElbowScan(_, _)
ElbowScan(rateOfChange, i) ==
    IF i = 0 THEN <<NegInfinity, 0>>
    ELSE LET prev == ElbowScan(rateOfChange, i - 1)
             drop == Subtract(rateOfChange[i], rateOfChange[i + 1])
         IN  IF Greater(drop, prev[1]) THEN <<drop, i>> ELSE prev

\* the elbow with the offset 3 and without the upper clamp
ElbowOffsetThree(rateOfChange, maxK) ==
    IF Len(rateOfChange) = 0 THEN 2
    ELSE Max(2, ElbowScan(rateOfChange, Len(rateOfChange) - 1)[2] + 3)

\* lines 215-230
Elbow(rateOfChange, maxK) ==
    IF Len(rateOfChange) = 0 THEN 2
    ELSE Max(2, Min(ElbowScan(rateOfChange, Len(rateOfChange) - 1)[2] + 2, maxK))

determineBestK(img, maxK) ==
    LET pixels == SamplePixels(img.data)
    IN  IF Len(pixels) = 0 THEN 2
        ELSE Elbow(RateOfChange(Distortions(pixels, maxK)), maxK)

(***************************************************************************)
(* src/unnamed/part_001 (the detection module).  Distances are square      *)
(* roots; the input colours of the detection stages are chosen with        *)
(* integer distances between them, so that Math.sqrt and the Float32Array  *)
(* sums are exact.  A read past the end of data yields undefined, which    *)
(* arithmetic turns into NaN: the colour <<NaN, NaN, NaN>>.                *)
(***************************************************************************)
UndefinedColor == <<NaN, NaN, NaN>>

\* the colour at the 0-based pixel index p of data
ColorAt(data, p) ==
    IF p + 1 \in 1..Len(data) THEN RGB(data[p + 1]) ELSE UndefinedColor

\* Math.sqrt on a perfect square
Sqrt(n) == CHOOSE r \in 0..n : r * r = n

\* Math.sqrt(dr * dr + dg * dg + db * db)
ColorDifference(a, b) ==
    IF DistanceSquared(a, b) = NaN THEN NaN ELSE Sqrt(DistanceSquared(a, b))

\* a sum of numbers of which some may be NaN
RECURSIVE SumAll(_)
SumAll(values) ==
    IF values = << >> THEN 0
    ELSE LET rest == SumAll(Tail(values))
         IN  IF Head(values) = NaN \/ rest = NaN THEN NaN ELSE Head(values) + rest

\* lines 219-233: hdiff[x], x = 0..width-2, as a sequence
HorizontalDifferences(img) ==
    Array([x \in 1..(img.width - 1) |->
        SumAll(Array([y \in 1..img.height |->
            ColorDifference(ColorAt(img.data, (y - 1) * img.width + (x - 1)),
                            ColorAt(img.data, (y - 1) * img.width + x))]))])

\* lines 236-250: vdiff[y], y = 0..height-2, as a sequence
VerticalDifferences(img) ==
    Array([y \in 1..(img.height - 1) |->
        SumAll(Array([x \in 1..img.width |->
            ColorDifference(ColorAt(img.data, (y - 1) * img.width + (x - 1)),
                            ColorAt(img.data, y * img.width + (x - 1)))]))])

\* a > b and a >= b on numbers that may be NaN
Gt(a, b) == a # NaN /\ b # NaN /\ a > b

Ge(a, b) == a # NaN /\ b # NaN /\ a >= b

\* the loop of findPeaks up to the 0-based index i: the peaks found so far
RECURSIVE PeaksUpTo(_, _, _, _)
\* the scan without the distance constraint of line 20
PeaksUpToAnyDistance(data, distance, height, i) ==
    IF i < 1 THEN << >>
    ELSE LET peaks == PeaksUpTo(data, distance, height, i - 1)
         IN  IF /\ Gt(data[i + 1], data[i])
                /\ Gt(data[i + 1], data[i + 2])
                /\ Ge(data[i + 1], height)
             THEN Append(peaks, i)
             ELSE peaks

\* the scan with >= in place of > : a plateau counts as a peak
PeaksUpToNonStrict(data, distance, height, i) ==
    IF i < 1 THEN << >>
    ELSE LET peaks == PeaksUpTo(data, distance, height, i - 1)
         IN  IF /\ Ge(data[i + 1], data[i])
                /\ Ge(data[i + 1], data[i + 2])
                /\ Ge(data[i + 1], height)
                /\ (Len(peaks) = 0 \/ i - peaks[Len(peaks)] >= distance)
             THEN Append(peaks, i)
             ELSE peaks

PeaksUpTo(data, distance, height, i) ==
    IF i < 1 THEN << >>
    ELSE LET peaks == PeaksUpTo(data, distance, height, i - 1)
         IN  IF /\ Gt(data[i + 1], data[i])
                /\ Gt(data[i + 1], data[i + 2])
                /\ Ge(data[i + 1], height)
                /\ (Len(peaks) = 0 \/ i - peaks[Len(peaks)] >= distance)
             THEN Append(peaks, i)
             ELSE peaks

\* findPeaks(data, distance, height): the 0-based indices 1..length-2 scanned
findPeaks(data, distance, height) == PeaksUpTo(data, distance, height, Len(data) - 2)

\* lines 257-265
Spacing(peaks) == Array([i \in 1..(Len(peaks) - 1) |-> peaks[i + 1] - peaks[i]])

RECURSIVE InsertNumber(_, _)
InsertNumber(sorted, x) ==
    IF sorted = << >> THEN <<x>>
    ELSE IF x < Head(sorted) THEN <<x>> \o sorted
    ELSE <<Head(sorted)>> \o InsertNumber(Tail(sorted), x)

\* [...arr].sort((a, b) => a - b)
RECURSIVE SortNumbers(_)
SortNumbers(arr) ==
    IF arr = << >> THEN << >>
    ELSE InsertNumber(SortNumbers(Tail(arr)), Head(arr))

\* the median that answers 2 for an empty array
medianEmptyTwo(arr) ==
    IF Len(arr) = 0 THEN Fin(2, 1)
    ELSE LET sorted == SortNumbers(arr)
             mid == Len(sorted) \div 2
         IN  IF Len(sorted) % 2 = 0
             THEN Fin(sorted[mid] + sorted[mid + 1], 2)
             ELSE Fin(sorted[mid + 1], 1)

\* lines 34-41, as a rational
median(arr) ==
    IF Len(arr) = 0 THEN Fin(1, 1)
    ELSE LET sorted == SortNumbers(arr)
             mid == Len(sorted) \div 2
         IN  IF Len(sorted) % 2 = 0
             THEN Fin(sorted[mid] + sorted[mid + 1], 2)
             ELSE Fin(sorted[mid + 1], 1)

\* line 119
maxIterations == 5

\* a centroid is the real colour s / n; n = 0 marks a NaN centroid
Centroid(sum, n) == [s |-> sum, n |-> n]

NaNCentroid == Centroid(<<0, 0, 0>>, 0)

\* [...colors[i * step]]
Seed(color) == IF color = UndefinedColor THEN NaNCentroid ELSE Centroid(color, 1)

\* the squared distance of color to the centroid z, times z.n * z.n
ScaledDistance(color, z) ==
    (color[1] * z.n - z.s[1]) * (color[1] * z.n - z.s[1])
      + (color[2] * z.n - z.s[2]) * (color[2] * z.n - z.s[2])
      + (color[3] * z.n - z.s[3]) * (color[3] * z.n - z.s[3])

\* colorDistance(color, z) < colorDistance(color, w), both defined
Nearer(color, z, w) ==
    ScaledDistance(color, z) * w.n * w.n < ScaledDistance(color, w) * z.n * z.n

\* lines 125-134: <<minDist is set, nearestCluster>> after centroids 1..i
RECURSIVE NearestClusterScan(_, _, _)
NearestClusterScan(color, centroids, i) ==
    IF i = 0 THEN <<FALSE, 1>>
    ELSE LET prev == NearestClusterScan(color, centroids, i - 1)
         IN  IF /\ color # UndefinedColor
                /\ centroids[i].n # 0
                /\ (~prev[1] \/ Nearer(color, centroids[i], centroids[prev[2]]))
             THEN <<TRUE, i>>
             ELSE prev

\* the cluster of every colour
Assign(colors, centroids) ==
    Array([i \in 1..Len(colors) |->
        NearestClusterScan(colors[i], centroids, Len(centroids))[2]])

ClusterSize(assigned, j) == Cardinality({i \in DOMAIN assigned : assigned[i] = j})

RECURSIVE ClusterSum(_, _, _, _, _)
ClusterSum(colors, assigned, j, c, i) ==
    IF i = 0 THEN 0
    ELSE (IF assigned[i] = j THEN colors[i][c] ELSE 0)
           + ClusterSum(colors, assigned, j, c, i - 1)

\* averageColor of cluster j (lines 195-207), NaN when a member is undefined
ClusterAverage(colors, assigned, j) ==
    IF \E i \in DOMAIN assigned : assigned[i] = j /\ colors[i] = UndefinedColor
    THEN NaNCentroid
    ELSE Centroid(<<ClusterSum(colors, assigned, j, 1, Len(colors)),
                    ClusterSum(colors, assigned, j, 2, Len(colors)),
                    ClusterSum(colors, assigned, j, 3, Len(colors))>>,
                  ClusterSize(assigned, j))

\* lines 120-145: the centroids after `iterations` rounds
RECURSIVE Iterate(_, _, _)
Iterate(colors, centroids, iterations) ==
    IF iterations = 0 THEN centroids
    ELSE LET before == Iterate(colors, centroids, iterations - 1)
             assigned == Assign(colors, before)
         IN  Array([j \in 1..Len(before) |->
                 IF ClusterSize(assigned, j) > 0
                 THEN ClusterAverage(colors, assigned, j)
                 ELSE before[j]])

\* lines 165-172: the first cluster of the largest size
LargestCluster(assigned, k) ==
    CHOOSE j \in 1..k :
        /\ \A m \in 1..k : ClusterSize(assigned, m) <= ClusterSize(assigned, j)
        /\ \A m \in 1..(j - 1) : ClusterSize(assigned, m) < ClusterSize(assigned, j)

\* findDominantColor with the two early returns merged into one
findDominantColorMerged(colors, k) ==
    IF Len(colors) <= 1 THEN <<0, 0, 0>> ELSE colors[1]

\* lines 107-175; Undefined stands for the TypeError of clusters[0].push when
\* k <= 0 leaves no cluster
findDominantColor(colors, k) ==
    IF Len(colors) = 0 THEN <<0, 0, 0>>
    ELSE IF Len(colors) = 1 THEN colors[1]
    ELSE IF k <= 0 THEN Undefined
    ELSE LET step == Len(colors) \div k
             seeds == Array([i \in 1..k |-> Seed(colors[(i - 1) * step + 1])])
             centroids == Iterate(colors, seeds, maxIterations)
             assigned == Assign(colors, centroids)
             z == centroids[LargestCluster(assigned, k)]
         IN  <<RoundDiv(z.s[1], z.n), RoundDiv(z.s[2], z.n), RoundDiv(z.s[3], z.n)>>

\* lines 66-82: the colours of tile (tx, ty), row by row.  The code computes
\* Math.floor(tx * (srcWidth / targetWidth)) in doubles; for every pair of sizes
\* this model reaches that equals the exact floor(tx * srcWidth / targetWidth).
TileColors(img, targetWidth, targetHeight, tx, ty) ==
    LET x1 == (tx * img.width) \div targetWidth
        y1 == (ty * img.height) \div targetHeight
        x2 == Min(((tx + 1) * img.width) \div targetWidth, img.width)
        y2 == Min(((ty + 1) * img.height) \div targetHeight, img.height)
        w == Max(0, x2 - x1)
        h == Max(0, y2 - y1)
    IN  Array([i \in 1..(w * h) |->
            ColorAt(img.data, (y1 + ((i - 1) \div w)) * img.width + x1 + ((i - 1) % w))])

\* the output pixel of a tile: left at zero when the tile is empty (line 84)
TilePixel(colors, k) ==
    IF Len(colors) = 0 THEN <<0, 0, 0, 0>>
    ELSE LET dominantColor == findDominantColor(colors, k)
         IN  IF dominantColor = Undefined THEN Undefined
             ELSE <<ToUint8Clamped(dominantColor[1]), ToUint8Clamped(dominantColor[2]),
                    ToUint8Clamped(dominantColor[3]), 255>>

\* lines 52-99; new Uint8ClampedArray of a negative length throws a RangeError
kCentroid(img, targetWidth, targetHeight, k) ==
    IF targetWidth * targetHeight * 4 < 0 THEN {Throw("RangeError")}
    ELSE IF targetWidth <= 0 \/ targetHeight <= 0
    THEN ImageData(<< >>, targetWidth, targetHeight)
    ELSE LET outputData ==
                 Array([i \in 1..(targetWidth * targetHeight) |->
                     TilePixel(TileColors(img, targetWidth, targetHeight,
                                          (i - 1) % targetWidth, (i - 1) \div targetWidth), k)])
         IN  IF \E i \in 1..Len(outputData) : outputData[i] = Undefined
             THEN {Throw("TypeError")}
             ELSE ImageData(outputData, targetWidth, targetHeight)

\* the new size with Math.ceil in place of Math.round
NewSizeCeiling(size, factor) == Max(1, (size * factor.d + factor.n - 1) \div factor.n)

\* Math.max(1, Math.round(size / factor)) for a rational factor >= 1
NewSize(size, factor) == Max(1, (2 * size * factor.d + factor.n) \div (2 * factor.n))

\* lines 253-254
hPeaks(img) == findPeaks(HorizontalDifferences(img), 1, 0)

vPeaks(img) == findPeaks(VerticalDifferences(img), 1, 0)

\* lines 215-283; new Float32Array(width - 1) throws a RangeError when width - 1 < 0
pixelDetect(img) ==
    IF img.width - 1 < 0 \/ img.height - 1 < 0 THEN {Throw("RangeError")}
    ELSE LET hMedian == median(Spacing(hPeaks(img)))
             vMedian == median(Spacing(vPeaks(img)))
             newWidth == NewSize(img.width, hMedian)
             newHeight == NewSize(img.height, vMedian)
         IN  {IF downscaled.kind = "throw" THEN downscaled
              ELSE Return([downscaled |-> downscaled.value,
                           hFactor |-> hMedian, vFactor |-> vMedian]) :
                 downscaled \in kCentroid(img, newWidth, newHeight, 2)}

(***************************************************************************)
(* src/unnamed/part_000 (the application).  A file the user hands over is  *)
(* [type, image]; a load in flight is [stage, image] with the stage        *)
(* "reading" (FileReader.onload pending) or "decoding" (Image.onload       *)
(* pending); the canvas is modelled by the buffer last put on it.          *)
(***************************************************************************)
Null == << >>

\* src/unnamed/part_002, lines 29-37: the Game Boy preset
GameBoy == <<<<15, 56, 15>>, <<48, 98, 48>>, <<139, 172, 15>>, <<155, 188, 15>>>>

\* src/unnamed/part_002, lines 162-164, with the one preset of this model
getPalette(name) == IF name = "gameboy" THEN GameBoy ELSE Null

\* the values of the palette select and of the colour slider
PaletteTypes == {"none", "custom", "gameboy"}

SliderValues == {2, 3}

\* lines 181-198: the outcomes of the palette stage chosen by the select
ProcessedData(fixed, paletteType, slider) ==
    IF paletteType = "none"
    THEN quantizeImage(fixed, determineBestK(fixed, KCap))
    ELSE IF paletteType = "custom"
    THEN quantizeImage(fixed, slider)
    ELSE LET palette == getPalette(paletteType)
         IN  IF palette = Null THEN {Return(fixed)} ELSE applyPalette(fixed, palette)

\* lines 173-211: what the canvas may hold after applyCurrentPalette()
applyCurrentPalette(fixed, paletteType, slider, canvas) ==
    IF fixed = Null THEN {canvas}
    ELSE {IF processedData.kind = "return" THEN processedData.value ELSE canvas :
             processedData \in ProcessedData(fixed, paletteType, slider)}

\* lines 139-168, called with originalImage just set to img
processImage(img) ==
    /\ processingSection' = "shown"
    /\ \E detected \in pixelDetect(img) :
          IF detected.kind = "throw"
          THEN UNCHANGED <<fixedImageData, detectionInfo, fixedCanvas>>
          ELSE /\ fixedImageData' = detected.value.downscaled
               /\ detectionInfo' = [hFactor |-> detected.value.hFactor,
                                    vFactor |-> detected.value.vFactor]
               /\ fixedCanvas' \in applyCurrentPalette(detected.value.downscaled,
                                                       paletteSelect, colorSlider, fixedCanvas)

NoLoad == [stage |-> "free", image |-> Null]

\* the page once init() has run (lines 11-13 and 39-59)
AppLoaded ==
    /\ originalImage = Null
    /\ fixedImageData = Null
    /\ detectionInfo = Null
    /\ processingSection = "hidden"
    /\ paletteSelect = "none"
    /\ customColorGroup = "hidden"
    /\ colorSlider = 2
    /\ fixedCanvas = Null
    /\ loads = [i \in 1..MaxLoads |-> NoLoad]
    /\ timeout = FALSE
    /\ cleared = FALSE

(***************************************************************************)
(* Inputs of the palette stages.                                           *)
(***************************************************************************)
\* the pixels of the freely chosen buffers: four colours, three alphas
InputPixels == {<<0, 0, 0, 255>>, <<2, 0, 0, 255>>, <<0, 2, 0, 128>>, <<2, 2, 1, 0>>}

\* the colours of the freely chosen palettes
PaletteColors == {<<2, 0, 0>>, <<0, 2, 0>>, <<1, 1, 0>>}

SeqsUpTo(S, n) == UNION {[1..m -> S] : m \in 0..n}

\* every pixel sequence up to MaxPixels, under its own dimensions and under
\* dimensions that do not fit it
FreeBuffers ==
    {[data |-> d, width |-> wh[1], height |-> wh[2]] :
        d \in SeqsUpTo(InputPixels, MaxPixels),
        wh \in {<<1, 1>>, <<2, 1>>, <<1, 2>>, <<0, 1>>, <<2, 2>>}}

\* the W x H checkerboard of colours c0 and c1, fully opaque
Checkerboard(W, H, c0, c1) ==
    [data |-> [i \in 1..(W * H) |->
                  LET x == (i - 1) % W
                      y == (i - 1) \div W
                      c == IF (x + y) % 2 = 0 THEN c0 ELSE c1
                  IN  <<c[1], c[2], c[3], 255>>],
     width |-> W, height |-> H]

\* every checkerboard up to MaxBoard x MaxBoard of two different input colours,
\* in either order
Checkerboards ==
    {Checkerboard(W, H, RGB(p[1]), RGB(p[2])) :
        W \in 1..MaxBoard, H \in 1..MaxBoard,
        p \in {q \in InputPixels \X InputPixels : RGB(q[1]) # RGB(q[2])}}

Palettes == SeqsUpTo(PaletteColors, MaxPalette) \cup {GameBoy}

(***************************************************************************)
(* The palette stages as actions: one call on the input buffer.            *)
(***************************************************************************)
InitPalette ==
    /\ imageData \in FreeBuffers \cup Checkerboards
    /\ call = [fn |-> "none"]
    /\ result = [kind |-> "none", value |-> 0]
    /\ buckets = << >>
    /\ AppLoaded

QuantizeImage ==
    /\ call.fn = "none"
    /\ \E numColors \in 0..MaxK :
          /\ call' = [fn |-> "quantizeImage", numColors |-> numColors]
          /\ result' \in quantizeImage(imageData, numColors)
    /\ UNCHANGED <<imageData, buckets, appVars>>

ApplyPalette ==
    /\ call.fn = "none"
    /\ \E palette \in Palettes :
          /\ call' = [fn |-> "applyPalette", palette |-> palette]
          /\ result' \in applyPalette(imageData, palette)
    /\ UNCHANGED <<imageData, buckets, appVars>>

DetermineBestK ==
    /\ call.fn = "none"
    /\ \E maxK \in (0..MaxK) \cup {KCap + 1} :
          /\ call' = [fn |-> "determineBestK", maxK |-> maxK]
          /\ result' = Return(determineBestK(imageData, maxK))
    /\ UNCHANGED <<imageData, buckets, appVars>>

NextPalette == DetermineBestK \/ QuantizeImage \/ ApplyPalette

SpecPalette == InitPalette /\ [][NextPalette]_vars

(***************************************************************************)
(* Inputs of the detection stages.                                         *)
(***************************************************************************)
\* three colours at the integer distances 5, 3 and 4 of each other
DetectPixels == {<<0, 0, 0, 255>>, <<3, 4, 0, 255>>, <<3, 0, 0, 128>>}

\* every pixel sequence up to MaxPixels under dimensions that fit it or not
FreeDetectBuffers ==
    {[data |-> d, width |-> wh[1], height |-> wh[2]] :
        d \in SeqsUpTo(DetectPixels, MaxPixels),
        wh \in {<<0, 1>>, <<1, 0>>, <<1, 1>>, <<2, 1>>, <<1, 2>>, <<2, 2>>,
                <<3, 1>>, <<4, 1>>}}

\* the pixels of the bands of an image, neighbours of different colours
BandPixels(bands) ==
    {c \in [1..bands -> DetectPixels] :
        \A i \in 1..(bands - 1) : RGB(c[i]) # RGB(c[i + 1])}

\* the image of height H whose columns show band c[j] for N columns each
Banded(N, H, c) ==
    [data |-> [i \in 1..(N * Len(c) * H) |-> c[(((i - 1) % (N * Len(c))) \div N) + 1]],
     width |-> N * Len(c), height |-> H]

BandedImages ==
    {Banded(N, H, c) :
        N \in 2..MaxPeriod, H \in 1..MaxHeight,
        c \in UNION {BandPixels(bands) : bands \in 1..MaxBands}}

\* the image turned by a quarter: its rows are the columns of img
Transposed(img) ==
    [data |-> Array([i \in 1..(img.width * img.height) |->
                  img.data[((i - 1) % img.height) * img.width + ((i - 1) \div img.height) + 1]]),
     width |-> img.height, height |-> img.width]

\* the one-row images, longer than MaxPixels, of pixels freely chosen of two
RowPixels == {<<0, 0, 0, 255>>, <<3, 4, 0, 255>>}

Rows ==
    {[data |-> d, width |-> Len(d), height |-> 1] :
        d \in UNION {[1..m -> RowPixels] : m \in (MaxPixels + 1)..MaxRow}}

\* the banded images and the rows, and the same turned by a quarter
DetectImages ==
    (BandedImages \cup Rows) \cup {Transposed(img) : img \in BandedImages \cup Rows}

\* the target sizes tried on a buffer: its own, one column more, half the
\* columns, a single tile, and no column at all
TargetSizes(img) ==
    {<<img.width, img.height>>, <<img.width + 1, img.height>>,
     <<(img.width + 1) \div 2, img.height>>, <<1, 1>>, <<0, 1>>}

(***************************************************************************)
(* The detection stages as actions.                                        *)
(***************************************************************************)
InitDetect ==
    /\ imageData \in FreeDetectBuffers \cup DetectImages
    /\ call = [fn |-> "none"]
    /\ result = [kind |-> "none", value |-> 0]
    /\ buckets = << >>
    /\ AppLoaded

PixelDetect ==
    /\ call.fn = "none"
    /\ call' = [fn |-> "pixelDetect"]
    /\ result' \in pixelDetect(imageData)
    /\ UNCHANGED <<imageData, buckets, appVars>>

KCentroid ==
    /\ call.fn = "none"
    /\ \E target \in TargetSizes(imageData), centroids \in 0..MaxCentroids :
          /\ call' = [fn |-> "kCentroid", targetWidth |-> target[1],
                      targetHeight |-> target[2], centroids |-> centroids]
          /\ result' \in kCentroid(imageData, target[1], target[2], centroids)
    /\ UNCHANGED <<imageData, buckets, appVars>>

NextDetect == PixelDetect \/ KCentroid

SpecDetect == InitDetect /\ [][NextDetect]_vars

(***************************************************************************)
(* The application: its inputs and one action per handler or callback.     *)
(***************************************************************************)
\* the images a file may decode to: one opaque pixel, two pixels of which one
\* is translucent, and three bands of two columns
AppImages ==
    {[data |-> <<<<0, 0, 0, 255>>>>, width |-> 1, height |-> 1],
     [data |-> <<<<0, 0, 0, 255>>, <<3, 0, 0, 128>>>>, width |-> 2, height |-> 1],
     Banded(2, 1, <<<<0, 0, 0, 255>>, <<3, 4, 0, 255>>, <<3, 0, 0, 128>>>>)}

AppFiles ==
    {[type |-> "image/png", image |-> img] : img \in AppImages}
        \cup {[type |-> "text/plain", image |-> Null]}

\* file.type.startsWith('image/')
IsImageType(type) == type = "image/png"

\* lines 118-134: an image file starts a load, in the first free place
loadImageFile(file) ==
    IF ~IsImageType(file.type) THEN UNCHANGED <<loads, cleared>>
    ELSE /\ \E i \in 1..MaxLoads :
               /\ loads[i].stage = "free"
               /\ \A j \in 1..(i - 1) : loads[j].stage # "free"
               /\ loads' = [loads EXCEPT ![i] = [stage |-> "reading", image |-> file.image]]
         /\ cleared' = FALSE

InitApp ==
    /\ imageData = Null
    /\ call = [fn |-> "none"]
    /\ result = [kind |-> "none", value |-> 0]
    /\ buckets = << >>
    /\ AppLoaded

\* lines 80-88
HandleDrop ==
    /\ \E file \in AppFiles : loadImageFile(file)
    /\ UNCHANGED <<stageVars, originalImage, fixedImageData, detectionInfo,
                   processingSection, paletteSelect, customColorGroup, colorSlider,
                   fixedCanvas, timeout>>

\* lines 93-98
HandleFileSelect ==
    /\ \E file \in AppFiles : loadImageFile(file)
    /\ UNCHANGED <<stageVars, originalImage, fixedImageData, detectionInfo,
                   processingSection, paletteSelect, customColorGroup, colorSlider,
                   fixedCanvas, timeout>>

\* lines 103-113: the first image item of the clipboard, if there is one
HandlePaste ==
    /\ \E file \in AppFiles :
          IF IsImageType(file.type) THEN loadImageFile(file)
          ELSE UNCHANGED <<loads, cleared>>
    /\ UNCHANGED <<stageVars, originalImage, fixedImageData, detectionInfo,
                   processingSection, paletteSelect, customColorGroup, colorSlider,
                   fixedCanvas, timeout>>

\* lines 125-132: the file is read, the image starts to decode
ReaderOnload ==
    /\ \E i \in 1..MaxLoads :
          /\ loads[i].stage = "reading"
          /\ loads' = [loads EXCEPT ![i].stage = "decoding"]
    /\ UNCHANGED <<stageVars, originalImage, fixedImageData, detectionInfo,
                   processingSection, paletteSelect, customColorGroup, colorSlider,
                   fixedCanvas, timeout, cleared>>

\* lines 127-130: the image is decoded
ImageOnload ==
    /\ \E i \in 1..MaxLoads :
          /\ loads[i].stage = "decoding"
          /\ loads' = [loads EXCEPT ![i] = NoLoad]
          /\ originalImage' = loads[i].image
          /\ processImage(loads[i].image)
    /\ UNCHANGED <<stageVars, paletteSelect, customColorGroup, colorSlider,
                   timeout, cleared>>

\* lines 248-260, after the select took the value the user chose
HandlePaletteChange ==
    /\ \E paletteType \in PaletteTypes :
          /\ paletteSelect' = paletteType
          /\ customColorGroup' = IF paletteType = "custom" THEN "shown" ELSE "hidden"
          /\ fixedCanvas' \in applyCurrentPalette(fixedImageData, paletteType,
                                                  colorSlider, fixedCanvas)
    /\ UNCHANGED <<stageVars, originalImage, fixedImageData, detectionInfo,
                   processingSection, colorSlider, loads, timeout, cleared>>

\* lines 265-276, after the slider took the value the user chose
HandleColorSliderChange ==
    /\ \E value \in SliderValues : colorSlider' = value
    /\ timeout' = IF fixedImageData # Null THEN TRUE ELSE timeout
    /\ UNCHANGED <<stageVars, originalImage, fixedImageData, detectionInfo,
                   processingSection, paletteSelect, customColorGroup, fixedCanvas,
                   loads, cleared>>

\* lines 272-274: the debounce timer fires
TimeoutFires ==
    /\ timeout
    /\ timeout' = FALSE
    /\ fixedCanvas' \in applyCurrentPalette(fixedImageData, paletteSelect,
                                            colorSlider, fixedCanvas)
    /\ UNCHANGED <<stageVars, originalImage, fixedImageData, detectionInfo,
                   processingSection, paletteSelect, customColorGroup, colorSlider,
                   loads, cleared>>

\* lines 307-322
HandleReset ==
    /\ originalImage' = Null
    /\ fixedImageData' = Null
    /\ detectionInfo' = Null
    /\ processingSection' = "hidden"
    /\ paletteSelect' = "none"
    /\ customColorGroup' = "hidden"
    /\ cleared' = TRUE
    /\ UNCHANGED <<stageVars, colorSlider, fixedCanvas, loads, timeout>>

NextApp ==
    \/ HandleDrop
    \/ HandleFileSelect
    \/ HandlePaste
    \/ ReaderOnload
    \/ ImageOnload
    \/ HandlePaletteChange
    \/ HandleColorSliderChange
    \/ TimeoutFires
    \/ HandleReset

SpecApp == InitApp /\ [][NextApp]_vars

(***************************************************************************)
(* findPeaks on its own: called on a signal with a distance and a height.  *)
(***************************************************************************)
\* the values of a signal and the heights asked for
SignalValues == {0, 1, 2}

Signals == SeqsUpTo(SignalValues, MaxSignal)

InitPeaks ==
    /\ imageData = Null
    /\ call = [fn |-> "none"]
    /\ result = [kind |-> "none", value |-> 0]
    /\ buckets = << >>
    /\ AppLoaded

FindPeaks ==
    /\ call.fn = "none"
    /\ \E data \in Signals, distance \in 1..MaxDistance, height \in SignalValues :
          /\ call' = [fn |-> "findPeaks", data |-> data,
                      distance |-> distance, height |-> height]
          /\ result' = Return(findPeaks(data, distance, height))
    /\ UNCHANGED <<imageData, buckets, appVars>>

NextPeaks == FindPeaks

SpecPeaks == InitPeaks /\ [][NextPeaks]_vars

(***************************************************************************)
(* medianCut step by step: the loop of lines 51-81 one iteration at a time *)
(* on the colours of the input buffer.                                     *)
(***************************************************************************)
InitMedianCut ==
    /\ imageData \in FreeBuffers \cup Checkerboards
    /\ call = [fn |-> "none"]
    /\ result = [kind |-> "none", value |-> 0]
    /\ buckets = << >>
    /\ AppLoaded

\* line 48: const buckets = [pixels]
MedianCutEnter ==
    /\ call.fn = "none"
    /\ \E numColors \in 0..MaxK :
          call' = [fn |-> "medianCut", numColors |-> numColors]
    /\ buckets' = <<Colors(imageData.data)>>
    /\ UNCHANGED <<imageData, result, appVars>>

\* lines 51-81: one iteration that splits
MedianCutSplit ==
    /\ call.fn = "medianCut"
    /\ result.kind = "none"
    /\ Len(buckets) < call.numColors
    /\ ~CannotSplit(buckets)
    /\ buckets' = SplitLargest(buckets)
    /\ UNCHANGED <<imageData, call, result, appVars>>

\* the loop is left, by its condition or by the break of line 69, and the
\* averages are returned (lines 84-97)
MedianCutReturn ==
    /\ call.fn = "medianCut"
    /\ result.kind = "none"
    /\ Len(buckets) >= call.numColors \/ CannotSplit(buckets)
    /\ result' = Return(Array([i \in 1..Len(buckets) |-> Average(buckets[i])]))
    /\ UNCHANGED <<imageData, call, buckets, appVars>>

NextMedianCut == MedianCutEnter \/ MedianCutSplit \/ MedianCutReturn

SpecMedianCut == InitMedianCut /\ [][NextMedianCut]_vars

(***************************************************************************)
(* Claims about the palette stages (checked under SpecPalette).            *)
(***************************************************************************)
DistinctColors(pixels) == Cardinality({pixels[i] : i \in 1..Len(pixels)})

\* C1 as stated: for every colour list and every requested count k, medianCut
\* returns at most k entries, exactly k when the list holds at least k distinct
\* colours, and fewer only when no bucket can be split further (no bucket has
\* two members left).
C1_PaletteSizeAnyK ==
    call.fn = "quantizeImage" =>
        LET pixels == Colors(imageData.data)
            k == call.numColors
            final == medianCutBuckets(pixels, k)
            n == Len(medianCut(pixels, k))
        IN  /\ n <= k
            /\ DistinctColors(pixels) >= k => n = k
            /\ n < k => \A b \in 1..Len(final) : Len(final[b]) < 2

\* C1 as amended: for every colour list and every requested count k >= 1,
\* medianCut returns at most k entries, exactly k when the list holds at least
\* k distinct colours, and fewer only when every bucket is down to at most one
\* distinct colour.
C1_PaletteSize ==
    (call.fn = "quantizeImage" /\ call.numColors >= 1) =>
        LET pixels == Colors(imageData.data)
            k == call.numColors
            final == medianCutBuckets(pixels, k)
            n == Len(medianCut(pixels, k))
        IN  /\ n <= k
            /\ DistinctColors(pixels) >= k => n = k
            /\ n < k => \A b \in 1..Len(final) : DistinctColors(final[b]) <= 1

\* a call that asked for three colours of a list with three distinct ones and
\* duplicates, and got three
C1_Witness ==
    /\ call.fn = "quantizeImage"
    /\ call.numColors = 3
    /\ DistinctColors(Colors(imageData.data)) = 3
    /\ Len(imageData.data) = 4
    /\ Len(medianCut(Colors(imageData.data), 3)) = 3

IsCheckerboard(img) == img \in Checkerboards

\* C2: determineBestK on a two-colour checkerboard (any width and height,
\* either colour order, maxK >= 2) returns exactly 2.
C2_CheckerboardIsTwo ==
    (call.fn = "determineBestK" /\ IsCheckerboard(imageData) /\ call.maxK >= 2) =>
        (result.kind = "return" /\ result.value = 2)

\* C4: with a non-empty palette, every pixel applyPalette returns is the first
\* palette entry, in palette order, of least squared distance to the source
\* pixel (so a member of the palette).
C4_NearestFirst ==
    (call.fn = "applyPalette" /\ call.palette # << >> /\ result.kind = "return") =>
        /\ Len(result.value.data) = Len(imageData.data)
        /\ \A i \in 1..Len(imageData.data) :
              LET src == RGB(imageData.data[i])
                  out == RGB(result.value.data[i])
                  pal == call.palette
              IN  \E j \in 1..Len(pal) :
                      /\ pal[j] = out
                      /\ \A m \in 1..Len(pal) :
                            DistanceSquared(src, pal[m]) >= DistanceSquared(src, pal[j])
                      /\ \A m \in 1..(j - 1) :
                            DistanceSquared(src, pal[m]) > DistanceSquared(src, pal[j])

\* applyPalette returned for a pixel that two different palette entries are
\* equally near to
C4_Witness ==
    /\ call.fn = "applyPalette"
    /\ result.kind = "return"
    /\ Len(call.palette) = 2
    /\ call.palette[1] # call.palette[2]
    /\ \E i \in 1..Len(imageData.data) :
          DistanceSquared(RGB(imageData.data[i]), call.palette[1])
              = DistanceSquared(RGB(imageData.data[i]), call.palette[2])

\* C5: quantizeImage and applyPalette keep every pixel's alpha and the
\* buffer's width and height.
C5_AlphaKept ==
    (call.fn \in {"quantizeImage", "applyPalette"} /\ result.kind = "return") =>
        /\ result.value.width = imageData.width
        /\ result.value.height = imageData.height
        /\ Len(result.value.data) = Len(imageData.data)
        /\ \A i \in 1..Len(imageData.data) :
              result.value.data[i][4] = imageData.data[i][4]

\* a quantised buffer whose colours changed and that holds a translucent pixel
C5_Witness ==
    /\ call.fn = "quantizeImage"
    /\ result.kind = "return"
    /\ WellFormed(imageData)
    /\ \E i \in 1..Len(imageData.data) :
          /\ imageData.data[i][4] = 128
          /\ RGB(result.value.data[i]) # RGB(imageData.data[i])

C9_InvalidRejected ==
    (call.fn # "none" /\ ~WellFormed(imageData)) => result.kind = "throw"

\* the rate of the reference computation: 0 where the distortion before is 0
GuardedRate(prev, cur) == IF prev = 0 THEN Fin(0, 1) ELSE Divide(prev - cur, prev)

\* determineBestK with the guarded rate
GuardedBestK(img, maxK) ==
    LET pixels == SamplePixels(img.data)
        distortions == Distortions(pixels, maxK)
        rates == [i \in 1..(Len(distortions) - 1) |->
                     GuardedRate(distortions[i], distortions[i + 1])]
    IN  IF Len(pixels) = 0 THEN 2 ELSE Elbow(rates, maxK)

\* C10: the division by a zero distortion is guarded, so that determineBestK
\* returns the k of the elbow computation in which the rate of a step after a
\* zero distortion is 0.
C10_ZeroDistortionGuarded ==
    (call.fn = "determineBestK" /\ WellFormed(imageData)) =>
        result.value = GuardedBestK(imageData, call.maxK)

\* C11 as stated: for every buffer and every maxK, determineBestK returns a k
\* with 2 <= k <= maxK, and returns 2 when fewer than two distortion samples
\* exist (maxK < 2 or no sampled pixel).
C11_ClampedAnyMaxK ==
    call.fn = "determineBestK" =>
        /\ 2 <= result.value /\ result.value <= call.maxK
        /\ (call.maxK < 2 \/ Len(SamplePixels(imageData.data)) = 0) => result.value = 2

\* C11 as amended: for every buffer and every maxK >= 2, determineBestK
\* returns a k with 2 <= k <= maxK; when maxK < 2 or no pixel is sampled it
\* returns 2, whatever maxK is.
C11_Clamped ==
    call.fn = "determineBestK" =>
        /\ call.maxK >= 2 => (2 <= result.value /\ result.value <= call.maxK)
        /\ (call.maxK < 2 \/ Len(SamplePixels(imageData.data)) = 0) => result.value = 2

\* determineBestK found its elbow above 2 and at the upper end of the range
C11_Witness ==
    /\ call.fn = "determineBestK"
    /\ call.maxK = 3
    /\ result.value = 3

(***************************************************************************)
(* Claims about the detection stages (checked under SpecDetect).           *)
(***************************************************************************)
\* imageData is the banded image of period N with the given number of bands
IsBanded(N, bands) ==
    \E c \in BandPixels(bands) : imageData = Banded(N, imageData.height, c)

\* hFactor is within 1/2 of N
NearPeriod(hFactor, N) ==
    /\ 2 * hFactor.n - 2 * N * hFactor.d < hFactor.d
    /\ 2 * N * hFactor.d - 2 * hFactor.n < hFactor.d

\* C3 as stated: on an image whose columns change colour exactly every N
\* columns (N >= 2), whatever the number of bands, pixelDetect returns hFactor
\* equal to N within rounding tolerance.
C3_PeriodAnyBands ==
    call.fn = "pixelDetect" =>
        \A N \in 2..MaxPeriod, bands \in 2..MaxBands :
            IsBanded(N, bands) =>
                (result.kind = "return" /\ NearPeriod(result.value.hFactor, N))

\* C3 as amended: the same for an image of at least three bands (at least
\* two colour changes, so that two peaks are found).
C3_Period ==
    call.fn = "pixelDetect" =>
        \A N \in 2..MaxPeriod, bands \in 3..MaxBands :
            IsBanded(N, bands) =>
                (result.kind = "return" /\ NearPeriod(result.value.hFactor, N))

\* pixelDetect has run on a three-band image of period 4 and found factor 4
C3_Witness ==
    /\ call.fn = "pixelDetect"
    /\ IsBanded(4, 3)
    /\ result.kind = "return"
    /\ result.value.hFactor = Fin(4, 1)

\* C7: kCentroid with the target dimensions equal to the source's returns,
\* at every pixel position, the RGB of the source pixel there, for every k.
C7_SameSizeIsIdentity ==
    (/\ call.fn = "kCentroid"
     /\ WellFormed(imageData)
     /\ call.targetWidth = imageData.width
     /\ call.targetHeight = imageData.height) =>
        /\ result.kind = "return"
        /\ Len(result.value.data) = Len(imageData.data)
        /\ \A i \in 1..Len(imageData.data) :
              RGB(result.value.data[i]) = RGB(imageData.data[i])

\* a same-size kCentroid call on an image of several colours
C7_Witness ==
    /\ call.fn = "kCentroid"
    /\ WellFormed(imageData)
    /\ call.targetWidth = imageData.width
    /\ call.targetHeight = imageData.height
    /\ result.kind = "return"
    /\ DistinctColors(Colors(imageData.data)) = 3

\* C12: in pixelDetect an axis with fewer than two peaks (an image of width
\* or height 1 included) gets the factor 1, no error is raised, and the
\* downscaled buffer keeps the source's size on that axis.
C12_FewPeaksIsOne ==
    (call.fn = "pixelDetect" /\ imageData.width >= 1 /\ imageData.height >= 1) =>
        /\ Len(hPeaks(imageData)) < 2 =>
              /\ result.kind = "return"
              /\ result.value.hFactor = Fin(1, 1)
              /\ result.value.downscaled.width = imageData.width
        /\ Len(vPeaks(imageData)) < 2 =>
              /\ result.kind = "return"
              /\ result.value.vFactor = Fin(1, 1)
              /\ result.value.downscaled.height = imageData.height

\* pixelDetect has run on an image of one row with three bands of two columns:
\* the rows keep their number while the columns are halved
C12_Witness ==
    /\ call.fn = "pixelDetect"
    /\ imageData.height = 1
    /\ imageData.width = 6
    /\ Len(hPeaks(imageData)) = 2
    /\ result.kind = "return"
    /\ result.value.vFactor = Fin(1, 1)
    /\ result.value.downscaled.height = 1
    /\ result.value.downscaled.width = 3

\* a >= b for the rational a and the integer b
AtLeast(a, b) == a.n >= b * a.d

\* size / factor rounded to the nearest integer, a half upwards
RoundedQuotient(size, factor) == (2 * size * factor.d + factor.n) \div (2 * factor.n)

\* C13: for every valid input image pixelDetect returns hFactor >= 1 and
\* vFactor >= 1, and a downscaled buffer of width max(1, round(W / hFactor))
\* in [1, W] and height max(1, round(H / vFactor)) in [1, H].
C13_NeverEnlarged ==
    (call.fn = "pixelDetect" /\ WellFormed(imageData)) =>
        /\ result.kind = "return"
        /\ AtLeast(result.value.hFactor, 1)
        /\ AtLeast(result.value.vFactor, 1)
        /\ result.value.downscaled.width =
               Max(1, RoundedQuotient(imageData.width, result.value.hFactor))
        /\ result.value.downscaled.height =
               Max(1, RoundedQuotient(imageData.height, result.value.vFactor))
        /\ result.value.downscaled.width \in 1..imageData.width
        /\ result.value.downscaled.height \in 1..imageData.height
        /\ WellFormed(result.value.downscaled)

\* pixelDetect found the factor 5/2 on a row of nine pixels and rounded
\* 9 / 2.5 = 3.6 to four columns
C13_Witness ==
    /\ call.fn = "pixelDetect"
    /\ imageData.width = 9
    /\ imageData.height = 1
    /\ result.kind = "return"
    /\ 2 * result.value.hFactor.n = 5 * result.value.hFactor.d
    /\ result.value.downscaled.width = 4

(***************************************************************************)
(* Claims about the application (checked under SpecApp).                   *)
(***************************************************************************)
\* C14: the pipeline keeps the input's alpha: when pixelDetect gives a buffer
\* of the input's dimensions, the output of the palette stage that follows
\* has, at every pixel, the alpha of the input at that pixel.
C14_PipelineKeepsAlpha ==
    (/\ originalImage # Null
     /\ fixedImageData # Null
     /\ fixedCanvas # Null
     /\ fixedImageData.width = originalImage.width
     /\ fixedImageData.height = originalImage.height) =>
        /\ Len(fixedCanvas.data) = Len(originalImage.data)
        /\ \A i \in 1..Len(originalImage.data) :
              fixedCanvas.data[i][4] = originalImage.data[i][4]

\* C17: from handleReset until the user starts a new load the application
\* stays cleared: no image, no fixed buffer, no detection result, and the
\* processing section hidden, whatever callback runs in between.
C17_StaysCleared ==
    cleared =>
        /\ originalImage = Null
        /\ fixedImageData = Null
        /\ detectionInfo = Null
        /\ processingSection = "hidden"

(***************************************************************************)
(* Claims about findPeaks (checked under SpecPeaks).                       *)
(***************************************************************************)
\* the 0-based index i of data is a candidate: strictly above both neighbours
\* and at least the height asked for; the first and the last index never are
IsCandidate(data, height, i) ==
    /\ 0 < i /\ i < Len(data) - 1
    /\ data[i + 1] > data[i]
    /\ data[i + 1] > data[i + 2]
    /\ data[i + 1] >= height

\* C15: findPeaks returns, in increasing order, exactly the indices a greedy
\* scan from the left accepts: i is returned iff it is a candidate and lies at
\* least the distance after the returned index before it, if there is one;
\* the first and the last index are never returned.
C15_GreedyScan ==
    call.fn = "findPeaks" =>
        LET peaks == result.value
            accepted == {peaks[j] : j \in 1..Len(peaks)}
        IN  /\ \A j \in 1..(Len(peaks) - 1) : peaks[j] < peaks[j + 1]
            /\ \A i \in 0..(Len(call.data) - 1) :
                  i \in accepted <=>
                      /\ IsCandidate(call.data, call.height, i)
                      /\ \A p \in accepted : p < i => i - p >= call.distance
            /\ accepted \subseteq 1..(Len(call.data) - 2)

\* of the candidates 1, 3 and 5 the scan with distance 3 took 1, dropped 3 and
\* took 5, which lies only 2 after the dropped one
C15_Witness ==
    /\ call.fn = "findPeaks"
    /\ call.distance = 3
    /\ IsCandidate(call.data, call.height, 3)
    /\ result.value = <<1, 5>>

(***************************************************************************)
(* Claims about the loop of medianCut (checked under SpecMedianCut).       *)
(***************************************************************************)
RECURSIVE Flatten(_)
Flatten(bs) == IF bs = << >> THEN << >> ELSE Head(bs) \o Flatten(Tail(bs))

\* how often the colour c occurs in a list
Occurrences(list, c) == Cardinality({i \in 1..Len(list) : list[i] = c})

\* the buckets hold every input colour as often as the input does
IsPartition(bs, pixels) ==
    \A c \in {pixels[i] : i \in 1..Len(pixels)} \cup {Flatten(bs)[i] : i \in 1..Len(Flatten(bs))} :
        Occurrences(Flatten(bs), c) = Occurrences(pixels, c)

\* what holds after every iteration and at the return
BucketsInvariant ==
    (/\ call.fn = "medianCut"
     /\ call.numColors >= 1
     /\ Len(imageData.data) >= 1) =>
        /\ IsPartition(buckets, Colors(imageData.data))
        /\ \A b \in 1..Len(buckets) : Len(buckets[b]) >= 1
        /\ Len(buckets) - 1 <= call.numColors - 1
        /\ result.kind = "return" =>
              /\ Len(result.value) = Len(buckets)
              /\ \A b \in 1..Len(buckets) : \A c \in 1..3 : result.value[b][c] \in 0..255
              /\ result.value = medianCut(Colors(imageData.data), call.numColors)

\* what a step of the loop does to the number of buckets
BucketsStep ==
    (call.fn = "medianCut" /\ call.numColors >= 1 /\ Len(imageData.data) >= 1) =>
        \/ Len(buckets') = Len(buckets) + 1 /\ result' = result
        \/ buckets' = buckets /\ result'.kind = "return"

\* C16: in medianCut on a non-empty input with numColors >= 1 the buckets are,
\* after every iteration, a partition of the input colours into non-empty
\* buckets; an iteration either ends the loop or adds exactly one bucket, so
\* that at most numColors - 1 splits happen, and every palette entry is the
\* average of at least one colour, with channels in 0..255.
C16_BucketsPartition == [](BucketsInvariant) /\ [][BucketsStep]_vars

\* the loop has split twice and returned three colours
C16_Witness ==
    /\ call.fn = "medianCut"
    /\ call.numColors = 3
    /\ WellFormed(imageData)
    /\ Len(imageData.data) = 4
    /\ Len(buckets) = 3
    /\ result.kind = "return"

====
